---- MODULE Spec2Model ----
(***************************************************************************)
(* Model of the frontend API client of auto_geo:                           *)
(*   src/fronted/src/services/api/index.ts   (axios instance, response     *)
(*       interceptors, verb helpers, domain facades)                       *)
(*   src/fronted/src/views/geo/Articles.vue  (article view handlers)       *)
(*   src/fronted/src/views/geo/Monitor.vue   (monitor view handlers)       *)
(*                                                                         *)
(* JavaScript values are tagged records, so that Array.isArray, optional   *)
(* chaining, truthiness and || are computed the way the runtime computes    *)
(* them.                                                                   *)
(***************************************************************************)
EXTENDS Integers, Sequences, FiniteSets, TLC

VARIABLES
    defaults,   \* instance.defaults of the shared axios instance
    calls,      \* every call issued through request(), in issue order
    effects,    \* console / ElMessage side effects, in emission order
    settled,    \* ids of the calls in the order their promise settled
    view,       \* reactive state of the mounted view
    clicks      \* handler invocations by the user so far

vars == <<defaults, calls, effects, settled, view, clicks>>

----------------------------------------------------------------------------
(* Bounds of the model *)

MaxClicks == 2         \* handler invocations by the user of a mounted view
MaxFacadeCalls == 2    \* calls issued directly on the facades in one run
MaxRequestCalls == 1   \* calls issued directly on request() in one run

----------------------------------------------------------------------------
(* JavaScript values *)

Undefined == [t |-> "undefined"]
Null == [t |-> "null"]
Bool(b) == [t |-> "boolean", b |-> b]
Num(n) == [t |-> "number", n |-> n]
Str(s) == [t |-> "string", s |-> s]
Arr(a) == [t |-> "array", a |-> a]
Obj(o) == [t |-> "object", o |-> o]

EmptyObj == [t |-> "object", o |-> [none \in {} |-> Undefined]]

IsNullish(v) == v.t \in {"undefined", "null"}

\* Array.isArray(v)
IsArray(v) == v.t = "array"

\* ToBoolean(v): the falsy values are undefined, null, false, 0 and ""
Truthy(v) ==
    CASE v.t \in {"undefined", "null"} -> FALSE
      [] v.t = "boolean" -> v.b
      [] v.t = "number" -> v.n # 0
      [] v.t = "string" -> v.s # ""
      [] OTHER -> TRUE

\* a || b
Or(a, b) == IF Truthy(a) THEN a ELSE b

\* v.k on a value that is neither null nor undefined
Get(v, k) == IF v.t = "object" /\ k \in DOMAIN v.o THEN v.o[k] ELSE Undefined

\* v?.k
OptGet(v, k) == IF IsNullish(v) THEN Undefined ELSE Get(v, k)

\* the TypeError the runtime raises for a property read on null or undefined
TypeError == Obj([name |-> Str("TypeError"),
                  message |-> Str("Cannot read properties of null or undefined")])

----------------------------------------------------------------------------
(* The axios instance and the verb helpers *)

DefaultTimeout == 30000
GenerateTimeout == 300000

\* axios.create({ baseURL, timeout: 30000, headers })
instance == [baseURL |-> "/api", timeout |-> DefaultTimeout,
             contentType |-> "application/json"]

NoConfig == [none \in {} |-> 0]

\* { ...base, ...config }: a key of config overrides the same key of base
Spread(base, config) ==
    [k \in DOMAIN base \cup DOMAIN config |->
        IF k \in DOMAIN config THEN config[k] ELSE base[k]]

\* the query string axios builds: null and undefined parameters are left out
Query(params) ==
    IF params.t # "object" THEN {}
    ELSE {<<k, params.o[k]>> : k \in {f \in DOMAIN params.o : ~IsNullish(params.o[f])}}

\* request(config): instance.request merges the call's config over the
\* instance defaults and sends it; the result is the request on the wire
request(config, dflt) ==
    [method  |-> config.method,
     url     |-> dflt.baseURL \o config.url,
     query   |-> IF "params" \in DOMAIN config THEN Query(config.params) ELSE {},
     data    |-> IF "data" \in DOMAIN config THEN config.data ELSE Undefined,
     timeout |-> IF "timeout" \in DOMAIN config THEN config.timeout ELSE dflt.timeout]

get(url, params, config, dflt) ==
    request(Spread([method |-> "GET", url |-> url, params |-> params], config), dflt)

\* mutant: the per-call config is dropped by the helper
postNoConfig(url, data, config, dflt) ==
    request([method |-> "POST", url |-> url, data |-> data], dflt)

post(url, data, config, dflt) ==
    request(Spread([method |-> "POST", url |-> url, data |-> data], config), dflt)

put(url, data, config, dflt) ==
    request(Spread([method |-> "PUT", url |-> url, data |-> data], config), dflt)

del(url, params, config, dflt) ==
    request(Spread([method |-> "DELETE", url |-> url, params |-> params], config), dflt)

----------------------------------------------------------------------------
(* The domain facades.  Every facade is a fixed mapping from its arguments  *)
(* to one verb-helper call; dflt is the instance's defaults at call time.   *)

\* mutant: no default is filled in, an omitted argument stays undefined
DefaultParamNone(arg, dfltValue) == arg

\* a default parameter (days = 7): the default replaces undefined only
DefaultParam(arg, dfltValue) == IF arg = Undefined THEN dfltValue ELSE arg

TrendDays == 7
TrendsDays == 30

accountApi_getList(params, dflt) == get("/accounts", params, NoConfig, dflt)
accountApi_startAuth(data, dflt) == post("/accounts/auth/start", data, NoConfig, dflt)
accountApi_getAuthStatus(taskId, dflt) ==
    get("/accounts/auth/status/" \o taskId, Undefined, NoConfig, dflt)
accountApi_update(id, data, dflt) ==
    put("/accounts/" \o ToString(id), data, NoConfig, dflt)
accountApi_delete(id, dflt) ==
    del("/accounts/" \o ToString(id), Undefined, NoConfig, dflt)

geoKeywordApi_getProjects(dflt) == get("/keywords/projects", Undefined, NoConfig, dflt)
geoKeywordApi_getProject(id, dflt) ==
    get("/keywords/projects/" \o ToString(id), Undefined, NoConfig, dflt)
geoKeywordApi_getProjectKeywords(projectId, dflt) ==
    get("/keywords/projects/" \o ToString(projectId) \o "/keywords",
        Undefined, NoConfig, dflt)
geoKeywordApi_createProject(data, dflt) ==
    post("/keywords/projects", data, NoConfig, dflt)
geoKeywordApi_createKeyword(projectId, data, dflt) ==
    post("/keywords/projects/" \o ToString(projectId) \o "/keywords",
         data, NoConfig, dflt)
geoKeywordApi_distill(data, dflt) == post("/keywords/distill", data, NoConfig, dflt)
geoKeywordApi_generateQuestions(data, dflt) ==
    post("/keywords/generate-questions", data, NoConfig, dflt)

geoArticleApi_getArticles(params, dflt) == get("/geo/articles", params, NoConfig, dflt)
geoArticleApi_generate(data, dflt) ==
    post("/geo/generate", data, [timeout |-> GenerateTimeout], dflt)
geoArticleApi_checkQuality(id, dflt) ==
    post("/geo/articles/" \o ToString(id) \o "/check-quality", Undefined, NoConfig, dflt)
geoArticleApi_checkIndex(id, dflt) ==
    post("/geo/articles/" \o ToString(id) \o "/check-index", Undefined, NoConfig, dflt)
geoArticleApi_getDetail(id, dflt) ==
    get("/geo/articles/" \o ToString(id), Undefined, NoConfig, dflt)
geoArticleApi_delete(id, dflt) ==
    del("/geo/articles/" \o ToString(id), Undefined, NoConfig, dflt)

indexCheckApi_check(data, dflt) == post("/index-check/check", data, NoConfig, dflt)
indexCheckApi_getRecords(params, dflt) ==
    get("/index-check/records", params, NoConfig, dflt)
indexCheckApi_getTrend(keywordId, days, dflt) ==
    get("/index-check/trend/" \o ToString(keywordId),
        Obj([days |-> DefaultParam(days, Num(TrendDays))]), NoConfig, dflt)

reportsApi_getOverview(dflt) == get("/reports/overview", Undefined, NoConfig, dflt)
reportsApi_getTrends(days, dflt) ==
    get("/reports/trends", Obj([days |-> DefaultParam(days, Num(TrendsDays))]),
        NoConfig, dflt)
reportsApi_getIndexTrend(params, dflt) ==
    get("/reports/trend/index", params, NoConfig, dflt)

schedulerApi_getJobs(dflt) == get("/scheduler/jobs", Undefined, NoConfig, dflt)
schedulerApi_start(dflt) == post("/scheduler/start", EmptyObj, NoConfig, dflt)
schedulerApi_stop(dflt) == post("/scheduler/stop", EmptyObj, NoConfig, dflt)

----------------------------------------------------------------------------
(* What the transport hands to the response interceptors *)

\* the response object axios builds for a received HTTP response
Response(status, data) == Obj([status |-> Num(status), data |-> data])

\* the AxiosError of a response whose status is outside 2xx
StatusError(status, data) ==
    Obj([message  |-> Str("Request failed with status code " \o ToString(status)),
         response |-> Response(status, data)])

\* the AxiosError of a request that got no answer within req.timeout
TimeoutError(req) ==
    Obj([message |-> Str("timeout of " \o ToString(req.timeout) \o "ms exceeded"),
         code    |-> Str("ECONNABORTED")])

\* the AxiosError of a connection failure
NetworkError == Obj([message |-> Str("Network Error"), code |-> Str("ERR_NETWORK")])

Fulfilled(response) == [kind |-> "fulfilled", response |-> response]
Rejected(error) == [kind |-> "rejected", error |-> error]

\* axios settles a received response by its status: 2xx fulfils, others reject
Received(status, data) ==
    IF status >= 200 /\ status < 300
    THEN Fulfilled(Response(status, data))
    ELSE Rejected(StatusError(status, data))

----------------------------------------------------------------------------
(* instance.interceptors.response.use(onFulfilled, onRejected) *)

FallbackMessage == "request failed"  \* the literal of index.ts line 44

Effect(kind, site, arg) == [kind |-> kind, site |-> site, arg |-> arg]

\* (response) => response.data
responseFulfilled(response) ==
    [kind |-> "return", value |-> Get(response, "data"), log |-> <<>>]

\* mutant: the generic message field is probed before the detail field
ErrorMessageSwapped(error) ==
    LET data == OptGet(Get(error, "response"), "data")
    IN  Or(Or(Or(OptGet(data, "message"), OptGet(data, "detail")),
              Get(error, "message")),
           Str(FallbackMessage))

\* error.response?.data?.detail || error.response?.data?.message
\*   || error.message || FallbackMessage        (error is not null/undefined)
ErrorMessage(error) ==
    LET data == OptGet(Get(error, "response"), "data")
    IN  Or(Or(Or(OptGet(data, "detail"), OptGet(data, "message")),
              Get(error, "message")),
           Str(FallbackMessage))

\* mutant: every 5xx status is dumped
IsStatus5xx(error) ==
    LET status == OptGet(Get(error, "response"), "status")
    IN  status.t = "number" /\ status.n >= 500

\* error.response?.status === 500
IsStatus500(error) == OptGet(Get(error, "response"), "status") = Num(500)

\* mutant: the handler notifies but forgets to return the rejection, so
\* the promise is fulfilled with undefined
responseRejectedSwallow(error) ==
    [kind |-> "return", value |-> Undefined,
     log |-> <<Effect("console.error", "interceptor:43", error),
               Effect("ElMessage.error", "interceptor:51", ErrorMessage(error))>>]

\* mutant: the handler rejects with a fresh error that carries the message only
responseRejectedWrapped(error) ==
    [kind |-> "reject", value |-> Obj([message |-> ErrorMessage(error)]),
     log |-> <<Effect("console.error", "interceptor:43", error),
               Effect("ElMessage.error", "interceptor:51", ErrorMessage(error))>>]

\* (error) => { console.error; message; 500 dump; ElMessage.error; reject }
\* Reading error.response on null or undefined raises a TypeError after the
\* first console.error has run.
responseRejected(error) ==
    LET first == <<Effect("console.error", "interceptor:43", error)>>
    IN  IF IsNullish(error)
        THEN [kind |-> "throw", value |-> TypeError, log |-> first]
        ELSE [kind  |-> "reject",
              value |-> error,
              log   |-> first
                        \o (IF IsStatus500(error)
                            THEN <<Effect("console.error", "interceptor:48",
                                          Get(Get(error, "response"), "data"))>>
                            ELSE <<>>)
                        \o <<Effect("ElMessage.error", "interceptor:51",
                                    ErrorMessage(error))>>]

\* the interceptor pair applied to what the transport produced
Intercept(outcome) ==
    IF outcome.kind = "fulfilled"
    THEN responseFulfilled(outcome.response)
    ELSE responseRejected(outcome.error)

\* the promise request() returns: a returned value fulfils it; a returned
\* rejected promise or a raised exception rejects it
Settlement(result) ==
    IF result.kind = "return"
    THEN [state |-> "fulfilled", value |-> result.value]
    ELSE [state |-> "rejected", value |-> result.value]

----------------------------------------------------------------------------
(* Calls in flight *)

NoOutcome == [kind |-> "none"]

\* a call just issued: its promise is pending and nobody has observed it;
\* at is the number of calls that had settled when it was issued
NewCall(handler, op, arg, req, resume) ==
    [handler |-> handler, op |-> op, arg |-> arg, req |-> req, at |-> Len(settled),
     state |-> "pending", value |-> Undefined, outcome |-> NoOutcome,
     seen |-> <<>>, threw |-> FALSE, resume |-> resume]

Pending == {c \in 1..Len(calls) : calls[c].state = "pending"}

TagLog(c, log) == [i \in 1..Len(log) |->
    [call |-> c, kind |-> log[i].kind, site |-> log[i].site, arg |-> log[i].arg]]

\* the state once the transport has produced outcome for call c and the
\* response interceptors have run: the promise is settled exactly as the
\* interceptor's result says, and the awaiting code observes that settlement
Intercepted(st, c, outcome) ==
    LET r == Intercept(outcome)
        s == Settlement(r)
    IN  [st EXCEPT
            !.calls = [st.calls EXCEPT
                ![c].state = s.state,
                ![c].value = s.value,
                ![c].outcome = outcome,
                ![c].seen = Append(@, s),
                ![c].threw = (r.kind = "throw")],
            !.effects = st.effects \o TagLog(c, r.log)]

Here == [calls |-> calls, effects |-> effects, view |-> view]

Become(st) ==
    /\ calls' = st.calls
    /\ effects' = st.effects
    /\ view' = st.view

----------------------------------------------------------------------------
(* Direct use of request() and of the facades by any caller *)

NoView == [name |-> "none"]

RequestConfigs ==
    { [method |-> "GET", url |-> "/geo/articles"],
      [method |-> "POST", url |-> "/geo/generate",
       data |-> Obj([keyword_id |-> Num(5), platform |-> Str("zhihu")]),
       timeout |-> GenerateTimeout],
      [method |-> "PUT", url |-> "/accounts/7", data |-> Obj([name |-> Str("n")])],
      [method |-> "DELETE", url |-> "/accounts/7"] }

\* a caller awaits request(config)
InvokeRequest ==
    /\ Len(calls) < MaxRequestCalls
    /\ \E config \in RequestConfigs :
          calls' = Append(calls,
              NewCall("caller", "request", Undefined, request(config, defaults), ""))
    /\ UNCHANGED <<defaults, effects, settled, view, clicks>>

\* bodies a backend answers an error status with
ErrorBodies ==
    { Undefined, Null, Str("Internal Server Error"), EmptyObj,
      Obj([detail |-> Str("d")]),
      Obj([message |-> Str("m")]),
      Obj([detail |-> Str("d"), message |-> Str("m")]),
      Obj([detail |-> Str(""), message |-> Str("m")]),
      Obj([detail |-> Null, message |-> Str("")]),
      Obj([detail |-> Arr(<<1>>)]) }

SuccessBodies ==
    { Undefined, Null, Str(""), Arr(<<1, 2>>),
      Obj([data |-> Arr(<<3>>), success |-> Bool(TRUE)]),
      Obj([success |-> Bool(FALSE)]) }

ErrorStatuses == {400, 404, 500, 503}
SuccessStatuses == {200, 201}

\* everything the axios transport can produce for a request
AxiosOutcomes(req) ==
    {Received(st, b) : st \in SuccessStatuses, b \in SuccessBodies}
    \cup {Received(st, b) : st \in ErrorStatuses, b \in ErrorBodies}
    \cup {Rejected(TimeoutError(req)), Rejected(NetworkError)}

\* the transport completes a call issued by a direct caller
SettleAxios ==
    /\ \E c \in Pending :
          /\ calls[c].handler = "caller"
          /\ \E outcome \in AxiosOutcomes(calls[c].req) :
                Become(Intercepted(Here, c, outcome))
          /\ settled' = Append(settled, c)
    /\ UNCHANGED <<defaults, clicks>>

InitRequest ==
    /\ defaults = instance
    /\ calls = <<>>
    /\ effects = <<>>
    /\ settled = <<>>
    /\ view = NoView
    /\ clicks = 0

NextRequest == InvokeRequest \/ SettleAxios

SpecRequest == InitRequest /\ [][NextRequest]_vars

\* values of any shape handed to the rejection interceptor
ErrorValues ==
    { Undefined, Null, Str("boom"), Num(0), Bool(FALSE), EmptyObj,
      Obj([message |-> Str("")]),
      Obj([message |-> Null]),
      Obj([message |-> Str("e")]),
      Obj([response |-> Null]),
      Obj([response |-> Str("r"), message |-> Str("e")]),
      Obj([response |-> EmptyObj]),
      Obj([response |-> Obj([status |-> Num(500)])]),
      Obj([response |-> Obj([status |-> Str("500"), data |-> Null])]),
      Obj([response |-> Obj([status |-> Num(500), data |-> Str("")])]),
      Obj([response |-> Obj([data |-> Num(0)])]),
      Obj([response |-> Obj([data |-> EmptyObj])]),
      Obj([response |-> Obj([data |-> Obj([detail |-> Str("")])])]),
      Obj([response |-> Obj([data |-> Obj([message |-> Num(0)])])]) }

\* the rejection interceptor is handed a value of any shape
SettleAny ==
    /\ \E c \in Pending :
          /\ calls[c].handler = "caller"
          /\ \E error \in ErrorValues :
                Become(Intercepted(Here, c, Rejected(error)))
          /\ settled' = Append(settled, c)
    /\ UNCHANGED <<defaults, clicks>>

NextInterceptor == InvokeRequest \/ SettleAxios \/ SettleAny

SpecInterceptor == InitRequest /\ [][NextInterceptor]_vars

----------------------------------------------------------------------------
(* Claims about the transport client and the response interceptors *)

Settled == {c \in 1..Len(calls) : calls[c].state # "pending"}
Failed == {c \in Settled : calls[c].outcome.kind = "rejected"}

\* the effects of call c, in emission order
EffectsOf(c) == SelectSeq(effects, LAMBDA e : e.call = c)
NotificationsOf(c) == SelectSeq(effects, LAMBDA e : e.call = c /\ e.kind = "ElMessage.error")

\* C1: a call through request/get/post/put/del is observed by its caller as
\* exactly one settlement: the unwrapped payload of a 2xx response, or one
\* rejection for any other transport outcome; a pending call has none yet.
C1_ExactlyOneOutcome ==
    \A c \in 1..Len(calls) :
        IF calls[c].state = "pending"
        THEN calls[c].seen = <<>>
        ELSE /\ Len(calls[c].seen) = 1
             /\ \/ /\ calls[c].outcome.kind = "fulfilled"
                   /\ calls[c].seen[1].state = "fulfilled"
                   /\ calls[c].seen[1].value = Get(calls[c].outcome.response, "data")
                \/ /\ calls[c].outcome.kind = "rejected"
                   /\ calls[c].seen[1].state = "rejected"

C1_Witness ==
    \E c \in Failed :
        /\ calls[c].req.method = "POST"
        /\ calls[c].outcome.error = NetworkError
        /\ calls[c].seen = <<[state |-> "rejected", value |-> NetworkError]>>

\* the three probed fields of an error and the fallback, in probing order
Candidates(error) ==
    LET response == IF error.t = "object" /\ "response" \in DOMAIN error.o
                    THEN error.o.response ELSE Undefined
        data == IF response.t = "object" /\ "data" \in DOMAIN response.o
                THEN response.o.data ELSE Undefined
        field(v, k) == IF v.t = "object" /\ k \in DOMAIN v.o THEN v.o[k] ELSE Undefined
    IN  <<field(data, "detail"), field(data, "message"), field(error, "message"),
          Str(FallbackMessage)>>

\* the first candidate that satisfies P (the fallback always stands last)
FirstWhere(cands, P(_)) ==
    LET hits == {i \in 1..Len(cands) : P(cands[i])}
    IN  IF hits = {} THEN cands[Len(cands)]
        ELSE cands[CHOOSE i \in hits : \A j \in hits : i <= j]

IsPresent(v) == v.t \notin {"undefined", "null"}
IsNonEmpty(v) ==
    /\ v.t \notin {"undefined", "null"}
    /\ v # Str("") /\ v # Num(0) /\ v # Bool(FALSE)

\* C2 as stated: the notified message is the first PRESENT value among
\* detail, message, error.message and the fallback literal.
C2_FirstPresentMessage ==
    \A c \in Failed : \A i \in 1..Len(NotificationsOf(c)) :
        NotificationsOf(c)[i].arg = FirstWhere(Candidates(calls[c].outcome.error), IsPresent)

\* C2 amended: the notified message is the first candidate that is present
\* and not empty (not "", 0 or false); an empty earlier candidate is skipped
\* like an absent one.
C2_FirstNonEmptyMessage ==
    \A c \in Failed :
        /\ Len(NotificationsOf(c)) >= 1
        /\ \A i \in 1..Len(NotificationsOf(c)) :
              NotificationsOf(c)[i].arg =
                  FirstWhere(Candidates(calls[c].outcome.error), IsNonEmpty)

C2_Witness ==
    \E c \in Failed :
        /\ Get(Get(calls[c].outcome.error, "response"), "data")
              = Obj([detail |-> Str(""), message |-> Str("m")])
        /\ Len(NotificationsOf(c)) = 1
        /\ NotificationsOf(c)[1].arg = Str("m")

\* C4 as stated: whatever value the rejection interceptor is handed, it
\* raises no exception of its own, notifies a message (the fallback literal
\* when no probed field is available) and completes by rejecting.
C4_NormalizerNeverThrows ==
    \A c \in Failed :
        /\ ~calls[c].threw
        /\ Len(NotificationsOf(c)) = 1
        /\ (\A i \in 1..3 : ~IsNonEmpty(Candidates(calls[c].outcome.error)[i]))
              => NotificationsOf(c)[1].arg = Str(FallbackMessage)

\* C5: a failed call is rejected with the very error the interceptor was
\* handed, unchanged; it is never fulfilled.
C5_RejectsWithOriginalError ==
    \A c \in Failed :
        /\ calls[c].state = "rejected"
        /\ calls[c].value = calls[c].outcome.error
        /\ calls[c].seen = <<[state |-> "rejected", value |-> calls[c].outcome.error]>>

C5_Witness ==
    \E c \in Failed :
        /\ calls[c].outcome.error = StatusError(500, Obj([detail |-> Str("d")]))
        /\ calls[c].value = StatusError(500, Obj([detail |-> Str("d")]))

\* positions in the effects of call c of the 500 dump and of the notification
DumpsOf(c) == {i \in 1..Len(EffectsOf(c)) : EffectsOf(c)[i].site = "interceptor:48"}
NotifiesOf(c) == {i \in 1..Len(EffectsOf(c)) : EffectsOf(c)[i].site = "interceptor:51"}

HasStatus(error, n) ==
    /\ error.t = "object" /\ "response" \in DOMAIN error.o
    /\ error.o.response.t = "object" /\ "status" \in DOMAIN error.o.response.o
    /\ error.o.response.o.status = Num(n)

\* C9: a failure with status exactly 500 dumps the raw payload once and
\* still notifies afterwards; any other failure makes no 500 dump.
C9_Dump500ThenNotify ==
    \A c \in Failed :
        IF HasStatus(calls[c].outcome.error, 500)
        THEN /\ Cardinality(DumpsOf(c)) = 1
             /\ \A i \in DumpsOf(c) :
                   /\ EffectsOf(c)[i].kind = "console.error"
                   /\ EffectsOf(c)[i].arg = calls[c].outcome.error.o.response.o.data
                   /\ \E j \in NotifiesOf(c) : j > i
        ELSE DumpsOf(c) = {}

C9_Witness ==
    \E c \in Failed :
        /\ HasStatus(calls[c].outcome.error, 500)
        /\ DumpsOf(c) = {2}
        /\ NotifiesOf(c) = {3}

----------------------------------------------------------------------------
(* The facades called directly, as any view of the application calls them *)

Inv(op, arg, req) == [op |-> op, arg |-> arg, req |-> req]

DayArgs == {Undefined, Num(TrendDays), Num(TrendsDays)}

GenerateData == Obj([keyword_id |-> Num(5), platform |-> Str("zhihu")])
CheckData == Obj([keyword_id |-> Num(5), company_name |-> Str("")])

\* one invocation of every facade operation, the day-window reads with the
\* days argument omitted (undefined) and given
FacadeInvocations(dflt) ==
    { Inv("accountApi.getList", Undefined, accountApi_getList(Undefined, dflt)),
      Inv("accountApi.startAuth", EmptyObj, accountApi_startAuth(EmptyObj, dflt)),
      Inv("accountApi.getAuthStatus", Str("t1"), accountApi_getAuthStatus("t1", dflt)),
      Inv("accountApi.update", Num(7), accountApi_update(7, EmptyObj, dflt)),
      Inv("accountApi.delete", Num(7), accountApi_delete(7, dflt)),
      Inv("geoKeywordApi.getProjects", Undefined, geoKeywordApi_getProjects(dflt)),
      Inv("geoKeywordApi.getProject", Num(1), geoKeywordApi_getProject(1, dflt)),
      Inv("geoKeywordApi.getProjectKeywords", Num(1),
          geoKeywordApi_getProjectKeywords(1, dflt)),
      Inv("geoKeywordApi.createProject", EmptyObj,
          geoKeywordApi_createProject(EmptyObj, dflt)),
      Inv("geoKeywordApi.createKeyword", Num(1),
          geoKeywordApi_createKeyword(1, EmptyObj, dflt)),
      Inv("geoKeywordApi.distill", EmptyObj, geoKeywordApi_distill(EmptyObj, dflt)),
      Inv("geoKeywordApi.generateQuestions", EmptyObj,
          geoKeywordApi_generateQuestions(EmptyObj, dflt)),
      Inv("geoArticleApi.getArticles", Undefined,
          geoArticleApi_getArticles(Undefined, dflt)),
      Inv("geoArticleApi.generate", GenerateData,
          geoArticleApi_generate(GenerateData, dflt)),
      Inv("geoArticleApi.checkQuality", Num(3), geoArticleApi_checkQuality(3, dflt)),
      Inv("geoArticleApi.checkIndex", Num(3), geoArticleApi_checkIndex(3, dflt)),
      Inv("geoArticleApi.getDetail", Num(3), geoArticleApi_getDetail(3, dflt)),
      Inv("geoArticleApi.delete", Num(3), geoArticleApi_delete(3, dflt)),
      Inv("indexCheckApi.check", CheckData, indexCheckApi_check(CheckData, dflt)),
      Inv("indexCheckApi.getRecords", Undefined,
          indexCheckApi_getRecords(Undefined, dflt)),
      Inv("reportsApi.getOverview", Undefined, reportsApi_getOverview(dflt)),
      Inv("reportsApi.getIndexTrend", Undefined,
          reportsApi_getIndexTrend(Undefined, dflt)),
      Inv("schedulerApi.getJobs", Undefined, schedulerApi_getJobs(dflt)),
      Inv("schedulerApi.start", Undefined, schedulerApi_start(dflt)),
      Inv("schedulerApi.stop", Undefined, schedulerApi_stop(dflt)) }
    \cup {Inv("indexCheckApi.getTrend", days, indexCheckApi_getTrend(5, days, dflt)) :
            days \in DayArgs}
    \cup {Inv("reportsApi.getTrends", days, reportsApi_getTrends(days, dflt)) :
            days \in DayArgs}

\* a caller awaits one facade operation
InvokeFacade ==
    /\ Len(calls) < MaxFacadeCalls
    /\ \E inv \in FacadeInvocations(defaults) :
          calls' = Append(calls, NewCall("caller", inv.op, inv.arg, inv.req, ""))
    /\ UNCHANGED <<defaults, effects, settled, view, clicks>>

\* the answers the backend gives in this specification: a success envelope,
\* or no answer within the request's timeout
FacadeOutcomes(req) ==
    {Received(200, Obj([success |-> Bool(TRUE)])), Rejected(TimeoutError(req))}

SettleFacade ==
    /\ \E c \in Pending :
          /\ calls[c].handler = "caller"
          /\ \E outcome \in FacadeOutcomes(calls[c].req) :
                Become(Intercepted(Here, c, outcome))
          /\ settled' = Append(settled, c)
    /\ UNCHANGED <<defaults, clicks>>

NextFacade == InvokeFacade \/ SettleFacade

SpecFacade == InitRequest /\ [][NextFacade]_vars

\* C6: generate is always issued with the 300000 ms override, every other
\* facade call with the default 30000 ms, whatever was issued before or is
\* still in flight; the shared defaults stay as constructed.
C6_TimeoutOverrideIsPerCall ==
    /\ defaults.timeout = 30000
    /\ \A c \in 1..Len(calls) :
          calls[c].req.timeout =
              IF calls[c].op = "geoArticleApi.generate" THEN 300000 ELSE 30000

C6_Witness ==
    /\ Len(calls) = 2
    /\ calls[1].op = "geoArticleApi.generate"
    /\ calls[1].state = "pending"
    /\ calls[1].req.timeout = 300000
    /\ calls[2].op = "geoArticleApi.getArticles"
    /\ calls[2].req.timeout = 30000

\* calls of the day-window reads, by how the days argument was given
DayReads == {c \in 1..Len(calls) :
                calls[c].op \in {"reportsApi.getTrends", "indexCheckApi.getTrend"}}
FacadeDefault(op) == IF op = "reportsApi.getTrends" THEN Num(30) ELSE Num(7)
Omitted(c) == calls[c].arg = Undefined
ExplicitDefault(c) == calls[c].arg = FacadeDefault(calls[c].op)

\* C8 as stated: a day-window read with days omitted and the same read with
\* days equal to the facade default are different requests on the wire.
C8_OmissionDistinguishable ==
    \A c, d \in DayReads :
        (calls[c].op = calls[d].op /\ Omitted(c) /\ ExplicitDefault(d))
            => calls[c].req # calls[d].req

\* C8 amended: the facade fills the default in, so the read with days omitted
\* is the same wire request as the read with days equal to the default, and
\* it carries days=30 (getTrends) or days=7 (getTrend) in its query.
C8_OmissionSendsDefault ==
    \A c, d \in DayReads :
        (calls[c].op = calls[d].op /\ Omitted(c) /\ ExplicitDefault(d))
            => /\ calls[c].req = calls[d].req
               /\ calls[c].req.query = {<<"days", FacadeDefault(calls[c].op)>>}

C8_Witness ==
    /\ Len(calls) = 2
    /\ calls[1].op = "reportsApi.getTrends" /\ Omitted(1)
    /\ calls[2].op = "reportsApi.getTrends" /\ ExplicitDefault(2)
    /\ calls[1].req.query = {<<"days", Num(30)>>}

----------------------------------------------------------------------------
(* The views.  A handler is a function of the state st = [calls, effects,   *)
(* view]: its start runs up to its first await, its resume runs from the    *)
(* settled await to the next await or to the handler's end.                 *)

Issue(st, handler, op, arg, req, resume) ==
    [st EXCEPT !.calls = Append(@, NewCall(handler, op, arg, req, resume))]

Emit(st, c, kind, site, arg) ==
    [st EXCEPT !.effects = Append(@, [call |-> c, kind |-> kind, site |-> site, arg |-> arg])]

\* Array.isArray(res) ? res : (res?.data || [])
LooseList(res) == IF IsArray(res) THEN res ELSE Or(OptGet(res, "data"), Arr(<<>>))

\* if Array.isArray(res) res; else if (res && Array.isArray(res.data)) res.data; else []
StrictList(res) ==
    IF IsArray(res) THEN res
    ELSE IF Truthy(res) /\ IsArray(Get(res, "data")) THEN Get(res, "data")
    ELSE Arr(<<>>)

\* the ids a select offers for a list held by the view
Options(list) == IF IsArray(list) THEN {list.a[i] : i \in 1..Len(list.a)} ELSE {}

\* ---- Articles.vue ----

ArticlesSetup ==
    [name |-> "Articles", mounted |-> FALSE,
     projects |-> Arr(<<>>), keywords |-> Arr(<<>>), articles |-> Arr(<<>>),
     articlesLoading |-> FALSE, generating |-> FALSE,
     projectId |-> Null, keywordId |-> Null, confirm |-> Null]

A_loadProjects(st) ==
    Issue(st, "Articles.loadProjects", "geoKeywordApi.getProjects", Undefined,
          geoKeywordApi_getProjects(defaults), "")

A_loadProjects_resume(st, c) ==
    IF st.calls[c].state = "fulfilled"
    THEN [st EXCEPT !.view.projects = LooseList(st.calls[c].value)]
    ELSE Emit(st, c, "console.error", "Articles:194", st.calls[c].value)

\* generateForm.projectId already holds the selected project (v-model)
A_onProjectChange(st) ==
    LET cleared == [st EXCEPT !.view.keywordId = Null, !.view.keywords = Arr(<<>>)]
    IN  IF Truthy(st.view.projectId)
        THEN Issue(cleared, "Articles.onProjectChange",
                   "geoKeywordApi.getProjectKeywords", st.view.projectId,
                   geoKeywordApi_getProjectKeywords(st.view.projectId.n, defaults), "")
        ELSE cleared

\* mutant: a response is dropped when a newer call of the handler exists
A_onProjectChange_resumeIfLatest(st, c) ==
    IF \E d \in (c + 1)..Len(st.calls) : st.calls[d].handler = st.calls[c].handler
    THEN st
    ELSE IF st.calls[c].state = "fulfilled"
         THEN [st EXCEPT !.view.keywords = LooseList(st.calls[c].value)]
         ELSE Emit(st, c, "console.error", "Articles:204", st.calls[c].value)

A_onProjectChange_resume(st, c) ==
    IF st.calls[c].state = "fulfilled"
    THEN [st EXCEPT !.view.keywords = LooseList(st.calls[c].value)]
    ELSE Emit(st, c, "console.error", "Articles:204", st.calls[c].value)

A_loadArticles(st, resume) ==
    Issue(Emit([st EXCEPT !.view.articlesLoading = TRUE],
               0, "console.log", "Articles:212", Undefined),
          "Articles.loadArticles", "geoArticleApi.getArticles", Undefined,
          geoArticleApi_getArticles(Undefined, defaults), resume)

A_generateArticle_finally(st) == [st EXCEPT !.view.generating = FALSE]

A_loadArticles_resume(st, c) ==
    LET body ==
            IF st.calls[c].state = "fulfilled"
            THEN [Emit(st, c, "console.log", "Articles:214", st.calls[c].value)
                    EXCEPT !.view.articles = StrictList(st.calls[c].value)]
            ELSE Emit(st, c, "console.error", "Articles:224", st.calls[c].value)
        done == [body EXCEPT !.view.articlesLoading = FALSE]
    IN  IF st.calls[c].resume = "generateArticle"
        THEN A_generateArticle_finally(done)
        ELSE done

\* the button is disabled, and the handler returns, while keywordId is empty;
\* the projects of the model carry no company_name, so the literal of line
\* 239 is sent
A_generateArticle(st) ==
    IF ~Truthy(st.view.keywordId) \/ ~IsArray(st.view.projects)
    THEN st
    ELSE Issue([st EXCEPT !.view.generating = TRUE],
               "Articles.generateArticle", "geoArticleApi.generate", st.view.keywordId,
               geoArticleApi_generate(
                   Obj([keyword_id |-> st.view.keywordId,
                        company_name |-> Str("default company"),
                        platform |-> Str("zhihu")]), defaults), "")

\* res.success raises on a null body; the finally block runs on every path
A_generateArticle_resume(st, c) ==
    IF st.calls[c].state = "fulfilled"
          /\ ~IsNullish(st.calls[c].value)
          /\ Truthy(Get(st.calls[c].value, "success"))
    THEN A_loadArticles(Emit(st, c, "ElMessage.success", "Articles:243", Undefined),
                        "generateArticle")
    ELSE A_generateArticle_finally(st)

\* res.success raises on a null body; the catch block logs what was thrown
A_handleCheckQuality(st, id) ==
    Issue(st, "Articles.handleCheckQuality", "geoArticleApi.checkQuality", Num(id),
          geoArticleApi_checkQuality(id, defaults), "")

A_handleCheckQuality_resume(st, c) ==
    LET res == st.calls[c].value
    IN  IF st.calls[c].state = "fulfilled"
        THEN IF IsNullish(res)
             THEN Emit(st, c, "console.error", "Articles:256", TypeError)
             ELSE IF Truthy(Get(res, "success"))
                  THEN A_loadArticles(
                           Emit(st, c, "ElMessage.success", "Articles:253", Undefined),
                           "handleCheckQuality")
                  ELSE st
        ELSE Emit(st, c, "console.error", "Articles:256", res)

\* deleteArticle up to its first await: the confirmation box is shown
A_deleteArticle(st, id) == [st EXCEPT !.view.confirm = Num(id)]

\* the user confirms: the box's promise is fulfilled and the DELETE is sent
A_deleteArticle_confirmed(st) ==
    Issue([st EXCEPT !.view.confirm = Null],
          "Articles.deleteArticle", "geoArticleApi.delete", st.view.confirm,
          geoArticleApi_delete(st.view.confirm.n, defaults), "")

\* the user cancels: the box's promise is rejected, the empty catch block
\* swallows the rejection
A_deleteArticle_cancelled(st) == [st EXCEPT !.view.confirm = Null]

\* mutant: the list is reloaded whether the DELETE succeeded or not
A_deleteArticle_resumeAlways(st, c) ==
    A_loadArticles(Emit(st, c, "ElMessage.success", "Articles:263", Undefined),
                   "deleteArticle")

\* a fulfilled DELETE notifies and reloads; the empty catch block swallows a
\* rejected one
A_deleteArticle_resume(st, c) ==
    IF st.calls[c].state = "fulfilled"
    THEN A_loadArticles(Emit(st, c, "ElMessage.success", "Articles:263", Undefined),
                        "deleteArticle")
    ELSE st

\* ---- Monitor.vue ----

MonitorSetup ==
    [name |-> "Monitor", mounted |-> FALSE, initialized |-> FALSE,
     projects |-> Arr(<<>>), keywords |-> Arr(<<>>),
     stats |-> Obj([total_keywords |-> Num(0)]), chart |-> Undefined,
     checking |-> FALSE, projectId |-> Null, keywordId |-> Null, timers |-> 0,
     logs |-> <<>>, wsStatus |-> "disconnected",
     sockets |-> <<>>, socket |-> 0, reconnects |-> <<>>,
     unmounted |-> FALSE, history |-> <<>>]

\* the delay of the reconnect timer and the capacity of the log buffer
ReconnectDelay == 5000
LogLimit == 50

\* socket = new WebSocket(url) with its three handlers attached: the view
\* keeps every socket it created in sockets (late: created after the view
\* was unmounted) and socket names the one created last
M_initWebSocket(st) ==
    [st EXCEPT
        !.view.sockets = Append(@, [state |-> "connecting", late |-> st.view.unmounted]),
        !.view.socket = Len(st.view.sockets) + 1]

\* socket.onopen
M_onopen(st, s) ==
    [st EXCEPT !.view.sockets[s].state = "open", !.view.wsStatus = "connected"]

\* mutant: the reconnect delay doubles with every close
M_oncloseBackoff(st, s) ==
    LET closed == {i \in 1..Len(st.view.sockets) : st.view.sockets[i].state = "closed"}
    IN  [st EXCEPT
            !.view.sockets[s].state = "closed",
            !.view.wsStatus = "disconnected",
            !.view.reconnects =
                Append(@, [delay |-> ReconnectDelay * (Cardinality(closed) + 1),
                           fn |-> "initWebSocket"])]

\* socket.onclose: wsStatus = 'disconnected'; setTimeout(initWebSocket, 5000)
M_onclose(st, s) ==
    [st EXCEPT
        !.view.sockets[s].state = "closed",
        !.view.wsStatus = "disconnected",
        !.view.reconnects = Append(@, [delay |-> ReconnectDelay, fn |-> "initWebSocket"])]

\* JSON.parse(text): the text of a frame is kept as the value it denotes when
\* it is JSON; on any other text, and on a binary frame, JSON.parse raises a
\* SyntaxError
JSON_parse(data) ==
    IF data.text = "json"
    THEN [kind |-> "return", value |-> data.value]
    ELSE [kind |-> "throw", value |-> Obj([name |-> Str("SyntaxError")])]

\* { time: data.time || '', level: data.level || 'INFO', message: data.message }
LogEntry(data) ==
    [time |-> Or(Get(data, "time"), Str("")),
     level |-> Or(Get(data, "level"), Str("INFO")),
     message |-> Get(data, "message")]

\* mutant: a full buffer drops the entry just pushed instead of the oldest
M_onmessageDropNewest(st, event) ==
    LET parsed == JSON_parse(event.data)
        data == parsed.value
        pushed == Append(st.view.logs, LogEntry(data))
    IN  IF parsed.kind = "throw"
        THEN st
        ELSE IF Truthy(data) /\ Truthy(Get(data, "message"))
             THEN [st EXCEPT !.view.logs =
                      IF Len(pushed) > LogLimit
                      THEN SubSeq(pushed, 1, Len(pushed) - 1) ELSE pushed]
             ELSE st

\* socket.onmessage: try { parse; if (data && data.message) { push; if
\* (length > 50) shift } } catch {}
M_onmessage(st, event) ==
    LET parsed == JSON_parse(event.data)
        data == parsed.value
        pushed == Append(st.view.logs, LogEntry(data))
    IN  IF parsed.kind = "throw"
        THEN st
        ELSE IF Truthy(data) /\ Truthy(Get(data, "message"))
             THEN [st EXCEPT !.view.logs =
                      IF Len(pushed) > LogLimit THEN Tail(pushed) ELSE pushed]
             ELSE st

\* onUnmounted: if (socket) socket.close(); close() starts the closing
\* handshake of a connecting or open socket, the close event follows later
M_onUnmounted(st) ==
    LET s == st.view.socket
        closing ==
            IF s # 0 /\ st.view.sockets[s].state \in {"connecting", "open"}
            THEN [st EXCEPT !.view.sockets[s].state = "closing"]
            ELSE st
    IN  [closing EXCEPT !.view.unmounted = TRUE]

M_onMounted(st) ==
    Issue(st, "Monitor.onMounted", "geoKeywordApi.getProjects", Undefined,
          geoKeywordApi_getProjects(defaults), "")

M_loadStats(st, resume) ==
    Issue(st, "Monitor.loadStats", "reportsApi.getOverview", Undefined,
          reportsApi_getOverview(defaults), resume)

\* chartRef is bound while the page is displayed (v-if="initialized") and
\* the view is not unmounted
M_initChart(st) ==
    IF ~st.view.initialized \/ st.view.unmounted
    THEN st
    ELSE Issue(st, "Monitor.initChart", "reportsApi.getTrends", Num(30),
               reportsApi_getTrends(Num(30), defaults), "")

\* data.map raises when data is no array; the catch block logs it
M_initChart_resume(st, c) ==
    LET data == LooseList(st.calls[c].value)
    IN  IF st.calls[c].state = "fulfilled"
        THEN IF IsArray(data)
             THEN [st EXCEPT !.view.chart = data]
             ELSE Emit(st, c, "console.error", "Monitor:120", TypeError)
        ELSE Emit(st, c, "console.error", "Monitor:120", st.calls[c].value)

\* res.data || res || {}; res.data raises on null or undefined
M_loadStats_resume(st, c) ==
    LET res == st.calls[c].value
        body ==
            IF st.calls[c].state = "fulfilled"
            THEN IF IsNullish(res)
                 THEN Emit(st, c, "console.error", "Monitor:96", TypeError)
                 ELSE [st EXCEPT !.view.stats = Or(Or(Get(res, "data"), res), EmptyObj)]
            ELSE Emit(st, c, "console.error", "Monitor:96", res)
    IN  CASE st.calls[c].resume = "onMounted" ->
                M_initWebSocket(M_initChart([body EXCEPT !.view.initialized = TRUE]))
          [] st.calls[c].resume = "refreshAllData" -> M_initChart(body)
          [] OTHER -> body

\* a rejected project load ends onMounted: the page is never displayed
M_onMounted_resume(st, c) ==
    IF st.calls[c].state = "fulfilled"
    THEN M_loadStats([st EXCEPT !.view.projects = LooseList(st.calls[c].value)],
                     "onMounted")
    ELSE st

M_refreshAllData(st) == M_loadStats(st, "refreshAllData")

\* checkForm.projectId already holds the selected project (v-model)
M_onProjectChange(st) ==
    LET cleared == [st EXCEPT !.view.keywords = Arr(<<>>)]
    IN  IF ~Truthy(st.view.projectId)
        THEN cleared
        ELSE Issue(cleared, "Monitor.onProjectChange",
                   "geoKeywordApi.getProjectKeywords", st.view.projectId,
                   geoKeywordApi_getProjectKeywords(st.view.projectId.n, defaults), "")

M_onProjectChange_resume(st, c) ==
    IF st.calls[c].state = "fulfilled"
    THEN [st EXCEPT !.view.keywords = LooseList(st.calls[c].value)]
    ELSE Emit(st, c, "console.error", "Monitor:152", st.calls[c].value)

M_runCheck(st) ==
    IF ~Truthy(st.view.keywordId) \/ ~IsArray(st.view.projects)
    THEN st
    ELSE Issue([st EXCEPT !.view.checking = TRUE],
               "Monitor.runCheck", "indexCheckApi.check", st.view.keywordId,
               indexCheckApi_check(
                   Obj([keyword_id |-> st.view.keywordId,
                        company_name |-> Str(""),
                        platforms |-> Arr(<<"doubao">>)]), defaults), "")

\* the catch block notifies for a rejected call and for res.success raising
\* on a null body; a success schedules refreshAllData 8 s later
M_runCheck_resume(st, c) ==
    LET res == st.calls[c].value
        body ==
            IF st.calls[c].state = "fulfilled" /\ ~IsNullish(res)
            THEN IF Truthy(Get(res, "success"))
                 THEN [Emit(st, c, "ElMessage.success", "Monitor:166", Undefined)
                         EXCEPT !.view.timers = @ + 1]
                 ELSE st
            ELSE Emit(st, c, "ElMessage.error", "Monitor:170", Str("submit failed"))
    IN  [body EXCEPT !.view.checking = FALSE]

\* the code that awaits call c runs on from its settled await
ResumeHandler(st, c) ==
    LET h == st.calls[c].handler
    IN  CASE h = "Articles.loadProjects" -> A_loadProjects_resume(st, c)
          [] h = "Articles.onProjectChange" -> A_onProjectChange_resume(st, c)
          [] h = "Articles.loadArticles" -> A_loadArticles_resume(st, c)
          [] h = "Articles.generateArticle" -> A_generateArticle_resume(st, c)
          [] h = "Articles.handleCheckQuality" -> A_handleCheckQuality_resume(st, c)
          [] h = "Articles.deleteArticle" -> A_deleteArticle_resume(st, c)
          [] h = "Monitor.onMounted" -> M_onMounted_resume(st, c)
          [] h = "Monitor.loadStats" -> M_loadStats_resume(st, c)
          [] h = "Monitor.initChart" -> M_initChart_resume(st, c)
          [] h = "Monitor.onProjectChange" -> M_onProjectChange_resume(st, c)
          [] h = "Monitor.runCheck" -> M_runCheck_resume(st, c)
          [] OTHER -> st

----------------------------------------------------------------------------
(* The specification of a mounted view *)

ListBodies ==
    { Arr(<<1, 2>>),                                    \* a bare sequence
      Obj([data |-> Arr(<<3>>), success |-> Bool(TRUE)]),  \* a wrapped sequence
      Obj([data |-> Str("x")]),                         \* data is no sequence
      Obj([success |-> Bool(TRUE)]) }                   \* no data field

\* the same shapes for a keyword list of one element
KeywordBodies ==
    { Arr(<<1>>),
      Obj([data |-> Arr(<<3>>), success |-> Bool(TRUE)]),
      Obj([data |-> Str("x")]),
      Obj([success |-> Bool(TRUE)]) }

PostBodies == {Obj([success |-> Bool(TRUE)]), Obj([success |-> Bool(FALSE)])}

OverviewBodies == {Obj([data |-> Obj([total_keywords |-> Num(4)])])}

ServerError == Received(500, Obj([detail |-> Str("d")]))

\* what the backend may answer to a call of a view
ViewOutcomes(call) ==
    {ServerError} \cup
    {Received(200, b) : b \in
        CASE call.op \in {"geoArticleApi.generate", "indexCheckApi.check",
                          "geoArticleApi.checkQuality", "geoArticleApi.delete"} -> PostBodies
          [] call.op = "reportsApi.getOverview" -> OverviewBodies
          [] call.op = "geoKeywordApi.getProjectKeywords" -> KeywordBodies
          [] OTHER -> ListBodies}

Init ==
    /\ defaults = instance
    /\ calls = <<>>
    /\ effects = <<>>
    /\ settled = <<>>
    /\ view \in {ArticlesSetup, MonitorSetup}
    /\ clicks = 0

\* a handler ran up to its next await (or to its end)
Ran(st) ==
    /\ Become(st)
    /\ UNCHANGED <<defaults, settled, clicks>>

\* the same for a handler the user invoked
Clicked(st) ==
    /\ clicks < MaxClicks
    /\ clicks' = clicks + 1
    /\ Become(st)
    /\ UNCHANGED <<defaults, settled>>

Mounted == [Here EXCEPT !.view.mounted = TRUE]

\* onMounted of the view
Mount ==
    /\ ~view.mounted
    /\ IF view.name = "Articles"
       THEN Ran(A_loadArticles(A_loadProjects(Mounted), ""))
       ELSE Ran(M_onMounted(Mounted))

\* the page is on screen and no confirmation box covers it
Displayed(name) ==
    /\ view.name = name
    /\ view.mounted
    /\ name = "Monitor" => view.initialized
    /\ name = "Articles" => view.confirm = Null

\* the user picks another project in the project select
ArticlesOnProjectChange ==
    /\ Displayed("Articles")
    /\ \E pid \in Options(view.projects) :
          /\ view.projectId # Num(pid)
          /\ Clicked(A_onProjectChange([Here EXCEPT !.view.projectId = Num(pid)]))

\* the user picks a keyword (the select is disabled without a project)
SelectKeyword ==
    /\ view.mounted
    /\ view.name = "Monitor" => view.initialized
    /\ Truthy(view.projectId)
    /\ \E k \in Options(view.keywords) :
          /\ view.keywordId # Num(k)
          /\ view' = [view EXCEPT !.keywordId = Num(k)]
    /\ UNCHANGED <<defaults, calls, effects, settled, clicks>>

\* the refresh button of the article list
ArticlesRefresh ==
    /\ Displayed("Articles")
    /\ Clicked(A_loadArticles(Here, ""))

\* the generate button (disabled without keyword, inert while loading)
ArticlesGenerate ==
    /\ Displayed("Articles")
    /\ Truthy(view.keywordId)
    /\ ~view.generating
    /\ Clicked(A_generateArticle(Here))

MonitorOnProjectChange ==
    /\ Displayed("Monitor")
    /\ \E pid \in Options(view.projects) :
          /\ view.projectId # Num(pid)
          /\ Clicked(M_onProjectChange([Here EXCEPT !.view.projectId = Num(pid)]))

\* the check button (inert while loading; the handler returns without keyword)
MonitorRunCheck ==
    /\ Displayed("Monitor")
    /\ Truthy(view.keywordId)
    /\ ~view.checking
    /\ Clicked(M_runCheck(Here))

\* the refresh button of the monitor page
MonitorRefresh ==
    /\ Displayed("Monitor")
    /\ Clicked(M_refreshAllData(Here))

\* a timer set by a successful runCheck fires
MonitorTimer ==
    /\ view.name = "Monitor"
    /\ view.timers > 0
    /\ Ran(M_refreshAllData([Here EXCEPT !.view.timers = @ - 1]))

\* the transport completes a call of the view: the interceptors run, the
\* promise settles and the code awaiting it runs on
Respond ==
    /\ \E c \in Pending :
          /\ calls[c].handler # "caller"
          /\ \E outcome \in ViewOutcomes(calls[c]) :
                LET st == ResumeHandler(Intercepted(Here, c, outcome), c)
                IN  Become(st)
          /\ settled' = Append(settled, c)
    /\ UNCHANGED <<defaults, clicks>>

Next ==
    \/ Mount
    \/ ArticlesOnProjectChange
    \/ SelectKeyword
    \/ ArticlesRefresh
    \/ ArticlesGenerate
    \/ MonitorOnProjectChange
    \/ MonitorRunCheck
    \/ MonitorRefresh
    \/ MonitorTimer
    \/ Respond

Spec == Init /\ [][Next]_vars

----------------------------------------------------------------------------
(* Claims about the views *)

ErrorNotificationsOf(c) ==
    SelectSeq(effects, LAMBDA e : e.call = c /\ e.kind = "ElMessage.error")

\* C3 as stated: a failed call produces exactly one error notification in
\* total, whoever emits it, and a successful call produces none.
C3_OneNotificationPerFailure ==
    \A c \in Settled :
        Len(ErrorNotificationsOf(c)) =
            IF calls[c].outcome.kind = "rejected" THEN 1 ELSE 0

\* C7 as stated: whatever a list endpoint answers, the value a caller stores
\* is a sequence.
C7_StoredListsAreSequences ==
    /\ IsArray(view.projects)
    /\ IsArray(view.keywords)
    /\ view.name = "Articles" => IsArray(view.articles)
    /\ view.name = "Monitor" => (view.chart = Undefined \/ IsArray(view.chart))

\* the position of a settled call in the order of settlement
Pos(c) == CHOOSE i \in 1..Len(settled) : settled[i] = c

OverlapHandlers ==
    {"Articles.onProjectChange", "Articles.loadArticles", "Monitor.onProjectChange"}

CallsOf(h) == {c \in 1..Len(calls) : calls[c].handler = h}

\* a was still in flight when b was issued
InFlightAt(a, b) == a < b /\ (calls[a].state = "pending" \/ Pos(a) > calls[b].at)

\* the state a handler writes, and the value it writes for a payload
Target(h) ==
    IF h = "Articles.loadArticles" THEN view.articles ELSE view.keywords
Written(h, res) ==
    IF h = "Articles.loadArticles" THEN StrictList(res) ELSE LooseList(res)

\* C10: calls leave the pending state only by settling, each exactly once;
\* and when the latest call of a handler overlapped earlier calls of it and
\* all of them have settled, the state the handler writes holds the payload
\* of the one that was fulfilled last, whichever was issued first.
C10_LastResolvedWins ==
    /\ \A c \in 1..Len(calls) :
          (calls[c].state # "pending")
              <=> (Cardinality({i \in 1..Len(settled) : settled[i] = c}) = 1)
    /\ \A h \in OverlapHandlers :
          CallsOf(h) # {} =>
            LET b == CHOOSE x \in CallsOf(h) : \A y \in CallsOf(h) : y <= x
                group == {b} \cup {a \in CallsOf(h) : InFlightAt(a, b)}
                done == {c \in group : calls[c].state = "fulfilled"}
            IN  (/\ Cardinality(group) >= 2
                 /\ \A c \in group : calls[c].state # "pending"
                 /\ done # {})
                => LET last == CHOOSE c \in done : \A d \in done : Pos(d) <= Pos(c)
                   IN  Target(h) = Written(h, calls[last].value)

\* the call issued first is fulfilled last, and its payload is what stays
C10_Witness ==
    /\ view.name = "Articles"
    /\ \E a, b \in CallsOf("Articles.onProjectChange") :
          /\ InFlightAt(a, b)
          /\ calls[a].state = "fulfilled" /\ calls[b].state = "fulfilled"
          /\ Pos(b) < Pos(a)
          /\ calls[a].value = Arr(<<1>>)
          /\ calls[b].value = Obj([data |-> Arr(<<3>>), success |-> Bool(TRUE)])
          /\ view.keywords = Arr(<<1>>)
          /\ view.projectId = calls[b].arg

----------------------------------------------------------------------------
(* The log WebSocket of the Monitor view: the server or the network opens   *)
(* and closes the sockets the view creates, timers fire, the view may be    *)
(* unmounted at any time after it was mounted                               *)

MaxCloses == 3

ClosedSockets(v) == {s \in 1..Len(v.sockets) : v.sockets[s].state = "closed"}

InitSocket ==
    /\ defaults = instance
    /\ calls = <<>>
    /\ effects = <<>>
    /\ settled = <<>>
    /\ view = MonitorSetup
    /\ clicks = 0

\* the connection of a socket is established: its open event fires
SocketOpen ==
    /\ \E s \in 1..Len(view.sockets) :
          /\ view.sockets[s].state = "connecting"
          /\ Ran(M_onopen(Here, s))

\* the close event of a socket fires: the closing handshake the view started
\* completes, or the server or the network ends the connection (a failed
\* connection attempt included)
SocketClose ==
    /\ \E s \in 1..Len(view.sockets) :
          /\ \/ view.sockets[s].state = "closing"
             \/ /\ view.sockets[s].state \in {"connecting", "open"}
                /\ Cardinality(ClosedSockets(view)) < MaxCloses
          /\ Ran(M_onclose(Here, s))

\* the oldest reconnect timer expires: setTimeout calls initWebSocket
ReconnectTimer ==
    /\ view.reconnects # <<>>
    /\ Ran(M_initWebSocket([Here EXCEPT !.view.reconnects = Tail(@)]))

\* the router leaves the page: onUnmounted runs
Unmount ==
    /\ view.mounted
    /\ ~view.unmounted
    /\ Ran(M_onUnmounted(Here))

NextSocket ==
    \/ Mount
    \/ Respond
    \/ SocketOpen
    \/ SocketClose
    \/ ReconnectTimer
    \/ Unmount

SpecSocket == InitSocket /\ [][NextSocket]_vars

\* the browser runs every timer that was set
SpecSocketLive == InitSocket /\ [][NextSocket]_vars /\ WF_vars(ReconnectTimer)

\* C11: every close of a socket schedules exactly one call of initWebSocket
\* 5000 ms later, the delay is the same for every close, and after the n-th
\* close, for any n, an (n+1)-th connection attempt follows.
C11_ReconnectAfterEveryClose ==
    /\ [][Cardinality(ClosedSockets(view')) > Cardinality(ClosedSockets(view))
            => /\ Cardinality(ClosedSockets(view')) = Cardinality(ClosedSockets(view)) + 1
               /\ view'.reconnects =
                     Append(view.reconnects, [delay |-> 5000, fn |-> "initWebSocket"])]_vars
    /\ [](\A i \in 1..Len(view.reconnects) : view.reconnects[i].delay = 5000)
    /\ \A n \in 1..(MaxCloses + 1) :
          (Cardinality(ClosedSockets(view)) >= n) ~> (Len(view.sockets) >= n + 1)

\* three consecutive closes, each followed by a new connection attempt
C11_Witness ==
    /\ Cardinality(ClosedSockets(view)) = 3
    /\ Len(view.sockets) = 4
    /\ view.sockets[4].state = "connecting"
    /\ ~view.unmounted

LiveSockets(v) ==
    {s \in 1..Len(v.sockets) : v.sockets[s].state \in {"connecting", "open"}}

\* C13 as stated: once onUnmounted has closed the socket of the view, no
\* socket is created any more, and at every moment at most one socket of the
\* view is connecting or open.
C13_NoSocketAfterUnmount ==
    /\ (view.unmounted /\ \E s \in 1..Len(view.sockets) : ~view.sockets[s].late)
          => \A s \in 1..Len(view.sockets) : ~view.sockets[s].late
    /\ Cardinality(LiveSockets(view)) <= 1

----------------------------------------------------------------------------
(* The log buffer of the Monitor view: the backend answers the page's       *)
(* requests, the socket opens and the server pushes frames; view.history    *)
(* records every frame that arrived                                         *)

MaxFrames == 52

\* the arrivals at which the server may send a frame of another form: the
\* first two (on the empty buffer, one after the other), one in the middle
\* and one on the full buffer
OddSlots == {1, 2, 30, 52}

JsonFrame(v) == [text |-> "json", value |-> v]

\* the n-th log line of the pipeline as the server sends it
LogFrame(n) ==
    JsonFrame(Obj([time |-> Str("12:00"), level |-> Str("ERROR"),
                   message |-> Str(ToString(n))]))

\* frames of any other form
OddFrames(n) ==
    { [text |-> "other"],                                 \* text that is no JSON
      JsonFrame(Null),
      JsonFrame(Num(5)),
      JsonFrame(Str("x")),
      JsonFrame(Arr(<<1>>)),
      JsonFrame(EmptyObj),
      JsonFrame(Obj([level |-> Str("INFO"), message |-> Str("")])),
      JsonFrame(Obj([time |-> Str("12:00"), message |-> Null])),
      JsonFrame(Obj([message |-> Str(ToString(n))])) }    \* no time, no level

InitLog ==
    /\ defaults = instance
    /\ calls = <<>>
    /\ effects = <<>>
    /\ settled = <<>>
    /\ view = MonitorSetup
    /\ clicks = 0

PlainBody(call) ==
    IF call.op = "reportsApi.getOverview"
    THEN Obj([data |-> Obj([total_keywords |-> Num(4)])])
    ELSE Arr(<<1, 2>>)

\* the backend answers a call of the view with its usual payload
Serve ==
    /\ \E c \in Pending :
          /\ calls[c].handler # "caller"
          /\ Become(ResumeHandler(
                 Intercepted(Here, c, Received(200, PlainBody(calls[c]))), c))
          /\ settled' = Append(settled, c)
    /\ UNCHANGED <<defaults, clicks>>

\* a frame arrives on an open socket: its message event fires
SocketMessage ==
    /\ Len(view.history) < MaxFrames
    /\ \E s \in 1..Len(view.sockets) : view.sockets[s].state = "open"
    /\ \E f \in {LogFrame(Len(view.history) + 1)} \cup
                 {o \in OddFrames(Len(view.history) + 1) :
                     Len(view.history) + 1 \in OddSlots} :
          Ran(M_onmessage([Here EXCEPT !.view.history = Append(@, f)], [data |-> f]))

NextLog ==
    \/ Mount
    \/ Serve
    \/ SocketOpen
    \/ SocketMessage

SpecLog == InitLog /\ [][NextLog]_vars

\* a frame that is JSON and has a non-empty message field
HasMessage(f) ==
    /\ f.text = "json"
    /\ f.value.t = "object"
    /\ "message" \in DOMAIN f.value.o
    /\ f.value.o.message \notin {Undefined, Null, Str("")}

LastN(k, seq) == SubSeq(seq, IF Len(seq) > k THEN Len(seq) - k + 1 ELSE 1, Len(seq))

\* C14: the buffer never holds more than 50 entries, and its entries are the
\* messages of the last 50 frames that are JSON with a non-empty message
\* field, in the order of arrival; every other frame leaves it as it was.
C14_BufferHoldsLast50 ==
    LET accepted == SelectSeq(view.history, HasMessage)
        recent == LastN(50, accepted)
    IN  /\ Len(view.logs) <= 50
        /\ Len(view.logs) = Len(recent)
        /\ \A i \in 1..Len(recent) : view.logs[i].message = recent[i].value.o.message

\* 52 frames arrived, the 30th with an empty message: the first of the 51
\* accepted entries has been dropped
C14_Witness ==
    /\ Len(view.history) = 52
    /\ view.history[30] = JsonFrame(Obj([level |-> Str("INFO"), message |-> Str("")]))
    /\ Len(view.logs) = 50
    /\ view.logs[1].message = Str("2")
    /\ view.logs[28].message = Str("29")
    /\ view.logs[29].message = Str("31")
    /\ view.logs[50].message = Str("52")

----------------------------------------------------------------------------
(* The article list with its row operations, and the facades called         *)
(* directly by the pages of the application that are not the Articles view  *)

InitArticles ==
    /\ defaults = instance
    /\ calls = <<>>
    /\ effects = <<>>
    /\ settled = <<>>
    /\ view \in {ArticlesSetup, NoView}
    /\ clicks = 0

\* the delete button of a row
ArticlesDelete ==
    /\ Displayed("Articles")
    /\ \E id \in Options(view.articles) : Clicked(A_deleteArticle(Here, id))

\* the user answers the confirmation box
ArticlesConfirm ==
    /\ view.name = "Articles"
    /\ view.confirm # Null
    /\ \/ Ran(A_deleteArticle_confirmed(Here))
       \/ Ran(A_deleteArticle_cancelled(Here))

\* the quality-check button of a row
ArticlesCheckQuality ==
    /\ Displayed("Articles")
    /\ \E id \in Options(view.articles) : Clicked(A_handleCheckQuality(Here, id))

\* onMounted of the Articles view
ArticlesMount ==
    /\ view.name = "Articles"
    /\ Mount

\* the keyword select of the Articles view
ArticlesSelectKeyword ==
    /\ view.name = "Articles"
    /\ SelectKeyword

\* another page of the application awaits a facade operation
PageInvokes ==
    /\ view.name = "none"
    /\ InvokeFacade

NextArticles ==
    \/ ArticlesMount
    \/ ArticlesOnProjectChange
    \/ ArticlesSelectKeyword
    \/ ArticlesRefresh
    \/ ArticlesGenerate
    \/ ArticlesDelete
    \/ ArticlesConfirm
    \/ ArticlesCheckQuality
    \/ Respond
    \/ PageInvokes
    \/ SettleFacade

SpecArticles == InitArticles /\ [][NextArticles]_vars

DeleteOps == {"accountApi.delete", "geoArticleApi.delete"}

\* the calls a step issues, and the DELETE calls it settles
IssuedIn(before, after) == (Len(before) + 1)..Len(after)
DeleteSettledIn(before, after, how) ==
    {c \in 1..Len(before) : /\ before[c].op \in DeleteOps
                            /\ before[c].state = "pending"
                            /\ after[c].state = how}

\* C12: a delete facade call is one DELETE request on the resource and the
\* step that issues it issues nothing else; a reload after a delete is
\* issued by the view in the step in which its DELETE was fulfilled, that
\* step issues exactly this one list request, and a rejected DELETE, a
\* DELETE awaited by another page and a cancelled confirmation issue nothing.
C12_ReloadOnlyAfterDeleteResolved ==
    /\ [](\A c \in 1..Len(calls) :
            calls[c].op \in DeleteOps =>
                /\ calls[c].req.method = "DELETE"
                /\ calls[c].req.url =
                      (IF calls[c].op = "accountApi.delete"
                       THEN "/api/accounts/" ELSE "/api/geo/articles/")
                          \o ToString(calls[c].arg.n))
    /\ [][/\ \A i \in IssuedIn(calls, calls') :
               /\ calls'[i].op \in DeleteOps => IssuedIn(calls, calls') = {i}
               /\ calls'[i].resume = "deleteArticle" =>
                     \E c \in DeleteSettledIn(calls, calls', "fulfilled") :
                         calls[c].handler = "Articles.deleteArticle"
          /\ \A c \in DeleteSettledIn(calls, calls', "fulfilled") :
               IF calls[c].handler = "Articles.deleteArticle"
               THEN /\ Len(calls') = Len(calls) + 1
                    /\ calls'[Len(calls')].op = "geoArticleApi.getArticles"
                    /\ calls'[Len(calls')].resume = "deleteArticle"
               ELSE Len(calls') = Len(calls)
          /\ DeleteSettledIn(calls, calls', "rejected") # {} => Len(calls') = Len(calls)
          /\ (view.name = "Articles" /\ view.confirm # Null /\ view'.confirm = Null
                 /\ Len(calls') > Len(calls))
               => (IssuedIn(calls, calls') = {Len(calls')}
                     /\ calls'[Len(calls')].op = "geoArticleApi.delete")]_vars

\* the view's DELETE of article 1 was fulfilled and the reload it triggered
\* has been answered, while an earlier DELETE that was rejected triggered none
C12_Witness ==
    /\ view.name = "Articles"
    /\ \E c, d \in 1..Len(calls) :
          /\ calls[c].op = "geoArticleApi.delete"
          /\ calls[c].state = "fulfilled"
          /\ calls[c].req.url = "/api/geo/articles/1"
          /\ d > c
          /\ calls[d].resume = "deleteArticle"
          /\ calls[d].state = "fulfilled"
    /\ \E c \in 1..Len(calls) :
          /\ calls[c].op = "geoArticleApi.delete"
          /\ calls[c].state = "rejected"
    /\ Cardinality({d \in 1..Len(calls) : calls[d].resume = "deleteArticle"}) = 1

LoadsInFlight == {c \in Pending : calls[c].handler = "Articles.loadArticles"}

\* C15 as stated: articlesLoading is true exactly while at least one
\* loadArticles call is in flight.
C15_LoadingWhileInFlight ==
    view.name = "Articles" => (view.articlesLoading <=> LoadsInFlight # {})

====
